---- MODULE Spec2Model ----
(***************************************************************************)
(* User account REST API: request validation -> use case -> repository    *)
(* pipeline and the centralized error handler.                             *)
(*                                                                         *)
(* A request runs in segments separated by its awaited store calls.  Each  *)
(* action below is one store call together with the synchronous code that  *)
(* follows it up to the next store call (or up to the response).           *)
(***************************************************************************)
EXTENDS Integers, Sequences, FiniteSets, TLC

VARIABLES
    rows,    \* the User table of the store: a set of [id, name, email, password]
    nextId,  \* the table's autoincrement counter
    req,     \* the request being served in each slot
    posts    \* the POST /users requests the clients have still to send

vars == <<rows, nextId, req, posts>>

---------------------------------------------------------------------------
(* Bounds and value domains                                                *)

\* The ids the clients name in their requests are 1..MaxId.
MaxId == 2
\* The clients send a bounded number of POST /users requests in all, so the
\* table's counter, which only an insert advances, stays bounded: MaxId of
\* them where requests run concurrently (every id inserted can be named),
\* one more where they run one at a time (requests on a table that holds
\* MaxId users, and a user no later request names).
MaxPosts == MaxId
MaxPostsSeq == MaxId + 1

\* Slots for requests in flight under Spec (two concurrent requests).
Reqs == {"r1", "r2"}
\* The single slot of the sequential specification SpecSeq.
SeqReqs == {"r1"}

Names == {"Ann", "Bob"}
Emails == {"a@x.io", "b@x.io"}
Passwords == {"secret1", "secret2"}
\* One schema-violating value per field.
BadName == ""
BadEmail == "invalid"
BadPassword == "short"

\* Accept headers: none is the header being absent (req.get returns undefined).
SimpleType == "application/vnd.simple+json"
AcceptHeaders == {<<>>, <<"application/json">>, <<SimpleType>>,
                  <<"text/html, " \o SimpleType \o ";q=0.9">>}

\* JSON bodies: every record over a subset of the keys, values from vals[k].
BodiesOver(keys, vals) ==
    {b \in UNION {[S -> UNION {vals[k] : k \in S}] : S \in SUBSET keys} :
        \A k \in DOMAIN b : b[k] \in vals[k]}

Has(b, k) == k \in DOMAIN b

---------------------------------------------------------------------------
(* Entity                                                                  *)

\* User.id of an entity that has not been persisted (undefined).  Stored ids
\* start at 1, so 0 stands for it: both are falsy in `if (user.id)`.
NoId == 0

User(name, email, password, id) ==
    [id |-> id, name |-> name, email |-> email, password |-> password]

---------------------------------------------------------------------------
(* Error taxonomy                                                          *)

AppError(kind, message, statusCode) ==
    [kind |-> kind, message |-> message, statusCode |-> statusCode,
     isOperational |-> TRUE]

ValidationError(message) == AppError("ValidationError", message, 400)
\* Faulty variant: a lookup miss thrown as a validation failure.
NotFoundErrorAsValidation(message) == AppError("ValidationError", message, 400)
NotFoundError(message) == AppError("NotFoundError", message, 404)
UnauthorizedError(message) == AppError("UnauthorizedError", message, 401)
InternalServerError(message) == AppError("InternalServerError", message, 500)

AppErrorKinds ==
    {"ValidationError", "NotFoundError", "UnauthorizedError", "InternalServerError"}

\* Faulty variant: any error carrying a status code taken for an AppError.
IsAppErrorByStatus(err) == "statusCode" \in DOMAIN err

\* err instanceof AppError
IsAppError(err) == "isOperational" \in DOMAIN err

\* An error that is not of the taxonomy: body-parser's SyntaxError for a
\* malformed JSON body carries its own status and the parser's message.
BodyParseError ==
    [kind |-> "SyntaxError", message |-> "Unexpected token } in JSON",
     statusCode |-> 400]

---------------------------------------------------------------------------
(* Validation schemas (zod): issues are collected field by field, in the   *)
(* schema's field order; each issue is [path, message]                     *)

Includes(s, sub) ==
    \E i \in 1..(Len(s) - Len(sub) + 1) : SubSeq(s, i, i + Len(sub) - 1) = sub

\* The i-th character of a string.
Char(s, i) == SubSeq(s, i, i)

Letters ==
    {"a", "b", "c", "d", "e", "f", "g", "h", "i", "j", "k", "l", "m",
     "n", "o", "p", "q", "r", "s", "t", "u", "v", "w", "x", "y", "z",
     "A", "B", "C", "D", "E", "F", "G", "H", "I", "J", "K", "L", "M",
     "N", "O", "P", "Q", "R", "S", "T", "U", "V", "W", "X", "Y", "Z"}
Digits == {"0", "1", "2", "3", "4", "5", "6", "7", "8", "9"}
AlphaNum == Letters \cup Digits

\* z.string().email(), zod's pattern
\*   ^(?!\.)(?!.*\.\.)([A-Z0-9_'+\-\.]*)[A-Z0-9_+-]@([A-Z0-9][A-Z0-9\-]*\.)+[A-Z]{2,}$
\* without regard to case: no leading dot and no two dots in a row; a local
\* part of letters, digits and _ ' + - . that ends in none of ' and . ; a
\* domain of labels of letters, digits and -, each starting with a letter
\* or digit and followed by a dot; a last label of two letters or more.
IsEmail(s) ==
    /\ ~Includes(s, "..")
    /\ \E at \in 2..(Len(s) - 1) :
          /\ Char(s, at) = "@"
          /\ Char(s, 1) # "."
          /\ \A j \in 1..(at - 1) :
                Char(s, j) \in AlphaNum \cup {"_", "'", "+", "-", "."}
          /\ Char(s, at - 1) \in AlphaNum \cup {"_", "+", "-"}
          /\ \E d \in (at + 2)..(Len(s) - 2) :
                /\ Char(s, d) = "."
                /\ \A j \in (d + 1)..Len(s) : Char(s, j) \in Letters
                /\ Char(s, at + 1) \in AlphaNum
                /\ \A j \in (at + 1)..(d - 1) :
                      /\ Char(s, j) \in AlphaNum \cup {"-", "."}
                      /\ Char(s, j) = "." => Char(s, j + 1) \in AlphaNum

MinLen(n, s) == Len(s) >= n

Issue(path, message) == [path |-> path, message |-> message]

\* The string rule of a field, the same in every schema that has the field:
\* name min(1), email email(), password min(6), each with its message.
FieldOk(k, s) ==
    CASE k = "name" -> MinLen(1, s)
      [] k = "email" -> IsEmail(s)
      [] k = "password" -> MinLen(6, s)

FieldMessage(k) ==
    CASE k = "name" -> "Name is required"
      [] k = "email" -> "Invalid email address"
      [] k = "password" -> "Password must be at least 6 characters"

\* A required string field: absent is an issue of its own.
RequiredString(b, k) ==
    IF ~Has(b, k) THEN <<Issue(k, "Required")>>
    ELSE IF FieldOk(k, b[k]) THEN <<>>
    ELSE <<Issue(k, FieldMessage(k))>>

\* The same field made .optional(): absent is accepted.
OptionalString(b, k) ==
    IF ~Has(b, k) THEN <<>> ELSE RequiredString(b, k)

\* z.number().int().positive(message) at `path`.
PositiveInt(id, path) ==
    IF id > 0 THEN <<>> ELSE <<Issue(path, "ID must be a positive integer")>>

createUserSchema(b) ==
    RequiredString(b, "name") \o RequiredString(b, "email")
    \o RequiredString(b, "password")

updateUserSchema(b) ==
    PositiveInt(b.id, "id") \o OptionalString(b, "name")
    \o OptionalString(b, "email") \o OptionalString(b, "password")

userIdSchema(id) == PositiveInt(id, "")

loginSchema(b) ==
    RequiredString(b, "email") \o RequiredString(b, "password")

RECURSIVE Join(_, _)
Join(strs, sep) ==
    IF strs = <<>> THEN ""
    ELSE IF Len(strs) = 1 THEN strs[1]
    ELSE strs[1] \o sep \o Join(Tail(strs), sep)

\* Faulty variant: parsing stopped at the first violated rule.
handleZodErrorFirst(issues) ==
    ValidationError(
        "Validation failed: " \o issues[1].path \o ": " \o issues[1].message)

\* handleZodError: a ZodError becomes one ValidationError listing every issue.
handleZodError(issues) ==
    ValidationError(
        "Validation failed: "
        \o Join([i \in 1..Len(issues) |->
                    issues[i].path \o ": " \o issues[i].message], ", "))

---------------------------------------------------------------------------
(* Store (Prisma client over the User table) and repository                *)

\* A call's outcome: a value, or the error it throws.
Return(v) == [ok |-> TRUE, val |-> v]
Throw(e) == [ok |-> FALSE, err |-> e]

\* prisma.user.findUnique: the matching rows, none or one.
findUniqueById(t, id) == {u \in t : u.id = id}
findUniqueByEmail(t, email) == {u \in t : u.email = email}

\* Faulty variant: the email column without its unique constraint.
UniqueOkMissing(t, id, email) == TRUE

\* `email String @unique`: a row (id, email) may be written when no other
\* row holds the email.
UniqueOk(t, id, email) == \A u \in t : u.email = email => u.id = id

\* Faulty variant: a failed lookup taken for a lookup that found nothing.
findByIdSwallowing(t, id, fault) ==
    Return(IF fault THEN {} ELSE findUniqueById(t, id))

\* PrismaUserRepository.findById / findByEmail: a failing store call is
\* rethrown as InternalServerError.  `fault` is the store call failing.
findById(t, id, fault) ==
    IF fault THEN Throw(InternalServerError("Failed to fetch user by ID"))
    ELSE Return(findUniqueById(t, id))

findByEmail(t, email, fault) ==
    IF fault THEN Throw(InternalServerError("Failed to fetch user by email"))
    ELSE Return(findUniqueByEmail(t, email))

\* Faulty variant: the store's refusal reported as the use case's own
\* pre-check would report it.
SaveFailedAsInUse(t, n) ==
    [ok |-> FALSE, err |-> ValidationError("Email already in use"),
     rows |-> t, nextId |-> n]

\* PrismaUserRepository.save: update when the entity has an id, create
\* otherwise.  The outcome carries the table and counter after the call.
SaveFailed(t, n) ==
    [ok |-> FALSE, err |-> InternalServerError("Failed to save user"),
     rows |-> t, nextId |-> n]

\* Faulty variant: save returns the entity it was given, not the persisted row.
saveReturnsArgument(t, n, user, fault) ==
    IF fault \/ ~UniqueOk(t, IF user.id # NoId THEN user.id ELSE n, user.email)
       \/ (user.id # NoId /\ findUniqueById(t, user.id) = {})
    THEN SaveFailed(t, n)
    ELSE [ok |-> TRUE, val |-> user,
          rows |-> {u \in t : u.id # user.id}
                   \cup {User(user.name, user.email, user.password,
                              IF user.id # NoId THEN user.id ELSE n)},
          nextId |-> IF user.id # NoId THEN n ELSE n + 1]

\* Faulty variant: an update to a held email takes the email over, the row
\* that held it dropped.
saveTakingOver(t, n, user, fault) ==
    IF fault \/ (user.id # NoId /\ findUniqueById(t, user.id) = {})
       \/ (user.id = NoId /\ ~UniqueOk(t, n, user.email))
    THEN SaveFailed(t, n)
    ELSE LET id == IF user.id # NoId THEN user.id ELSE n
             row == User(user.name, user.email, user.password, id)
         IN  [ok |-> TRUE, val |-> row,
              rows |-> {u \in t : u.id # id /\ u.email # user.email} \cup {row},
              nextId |-> IF user.id # NoId THEN n ELSE n + 1]

\* Faulty variant: an update of a row that is gone writes the row anew.
saveUpserting(t, n, user, fault) ==
    IF fault \/ ~UniqueOk(t, IF user.id # NoId THEN user.id ELSE n, user.email)
    THEN SaveFailed(t, n)
    ELSE LET id == IF user.id # NoId THEN user.id ELSE n
             row == User(user.name, user.email, user.password, id)
         IN  [ok |-> TRUE, val |-> row,
              rows |-> {u \in t : u.id # id} \cup {row},
              nextId |-> IF user.id # NoId THEN n ELSE n + 1]

save(t, n, user, fault) ==
    IF fault THEN SaveFailed(t, n)
    ELSE IF user.id # NoId
    THEN IF findUniqueById(t, user.id) = {} \/ ~UniqueOk(t, user.id, user.email)
         THEN SaveFailed(t, n)
         ELSE [ok |-> TRUE,
               val |-> User(user.name, user.email, user.password, user.id),
               rows |-> {u \in t : u.id # user.id}
                        \cup {User(user.name, user.email, user.password, user.id)},
               nextId |-> n]
    ELSE IF ~UniqueOk(t, n, user.email)
         THEN SaveFailed(t, n)
         ELSE [ok |-> TRUE,
               val |-> User(user.name, user.email, user.password, n),
               rows |-> t \cup {User(user.name, user.email, user.password, n)},
               nextId |-> n + 1]

\* Faulty variant: the delete takes the rows up to the id with it.
deleteUpTo(t, id, fault) ==
    IF fault \/ findUniqueById(t, id) = {}
    THEN [ok |-> FALSE, err |-> InternalServerError("Failed to delete user"),
          rows |-> t]
    ELSE [ok |-> TRUE, rows |-> {u \in t : u.id > id}]

\* PrismaUserRepository.delete: deleting a missing row throws in the store.
delete(t, id, fault) ==
    IF fault \/ findUniqueById(t, id) = {}
    THEN [ok |-> FALSE, err |-> InternalServerError("Failed to delete user"),
          rows |-> t]
    ELSE [ok |-> TRUE, rows |-> {u \in t : u.id # id}]

---------------------------------------------------------------------------
(* Tokens, response shaping, centralized error handler                     *)

\* process.env.JWT_SECRET || "secret", with the variable unset.
JwtSecret == "secret"

\* jwt.sign(payload, secret, {expiresIn}): the payload with its expiry
\* claim, and a signature over both under the secret.
JwtSign(payload, secret, expiresIn) ==
    [payload |-> payload @@ [expiresIn |-> expiresIn],
     signature |-> <<"HS256", secret, payload, expiresIn>>]

\* jwt.decode of a token.
JwtDecode(token) == token.payload

\* Faulty variant: the whole entity passed through.
mapToUserResponseDtoWhole(user) == user

mapToUserResponseDto(user) ==
    [id |-> user.id, name |-> user.name, email |-> user.email]

\* UserController.formatUserResponse; accept is <<>> when the header is absent.
formatUserResponse(user, accept) ==
    LET userDto == mapToUserResponseDto(user) IN
    IF accept # <<>> /\ Includes(accept[1], SimpleType)
    THEN [id |-> userDto.id, name |-> userDto.name, email |-> userDto.email]
    ELSE userDto

\* JSON null.
Null == <<>>

\* sendSuccessResponse: {data, message, ...additionalFields}.
sendSuccessResponse(statusCode, data, message, additionalFields) ==
    [status |-> statusCode,
     body |-> additionalFields @@ [data |-> data, message |-> message]]

NoFields == <<>>

\* A response without content.
NoBody == <<>>

\* res.status(statusCode).json(body): a 204 or 304 response carries no
\* content, so the body handed to json is dropped before it is sent.
ExpressSend(response) ==
    IF response.status \in {204, 304}
    THEN [response EXCEPT !.body = NoBody]
    ELSE response

\* Faulty variant: every error reported as a client failure.
errorHandlerAlwaysFail(err) ==
    [status |-> IF IsAppError(err) THEN err.statusCode ELSE 500,
     body |-> [status |-> "fail",
               message |-> IF IsAppError(err) THEN err.message
                           ELSE "An unexpected error occurred"]]

errorHandler(err) ==
    IF IsAppError(err)
    THEN [status |-> err.statusCode,
          body |-> [status |-> IF err.statusCode >= 400 /\ err.statusCode < 500
                               THEN "fail" ELSE "error",
                    message |-> err.message]]
    ELSE [status |-> 500,
          body |-> [status |-> "error",
                    message |-> "An unexpected error occurred"]]

---------------------------------------------------------------------------
(* Requests                                                                *)
(*                                                                         *)
(* pc: "idle" (slot free), "find" (the use case awaits its read), "write"  *)
(* (it awaits its write), "done" (the response has been sent).  Optional   *)
(* values are sets with at most one element.                               *)
(* path   the id of the route's path (req.params.id), for routes with one *)
(* input  what the use case's execute received                             *)
(* accept the Accept header the controller read when shaping the response *)
(* user   the entity the use case is about to write                        *)
(* err    the error thrown, res the response as sent (status and body)     *)
(* History, read by the properties only:                                   *)
(* held   the key looked up (email or id) was stored when the request came *)
(* fault  a store call of this request failed in the store itself          *)
(* calls  the number of repository calls the request has made              *)
(* before the row the read returned, out the entity the use case returned  *)

Idle == [pc |-> "idle"]

Request(op, path, input, held) ==
    [pc |-> "find", op |-> op, path |-> path, input |-> input, accept |-> {},
     held |-> held, fault |-> FALSE, calls |-> 0, before |-> {}, user |-> {},
     err |-> {}, out |-> {}, res |-> {}]

\* The request as it is once one more repository call of its has returned;
\* fault is the store having failed in that call.
Called(q, fault) == [q EXCEPT !.calls = @ + 1, !.fault = @ \/ fault]

\* Faulty variant: the rejected handler's error caught and dropped, the
\* request left without a response.
FailedUnanswered(q, e) ==
    [q EXCEPT !.pc = "done", !.err = {e}]

\* catchAsync: a rejected handler forwards its error to the error handler.
Failed(q, e) ==
    [q EXCEPT !.pc = "done", !.err = {e}, !.res = {ExpressSend(errorHandler(e))}]

Replied(q, entity, accept, response) ==
    [q EXCEPT !.pc = "done", !.out = entity, !.accept = accept,
              !.res = {ExpressSend(response)}]

\* Faulty variant: the token signed for the email alone.
TokenWithoutId(user) ==
    JwtSign([id |-> NoId, email |-> user.email], JwtSecret, "1h")

Token(user) ==
    JwtSign([id |-> user.id, email |-> user.email], JwtSecret, "1h")

\* express.json() rejects a malformed body before any route runs.
Malformed(r, op) ==
    /\ req[r].pc = "idle"
    /\ req' = [req EXCEPT ![r] =
                 Failed(Request(op, {}, <<>>, FALSE), BodyParseError)]
    /\ UNCHANGED <<rows, nextId, posts>>

\* Faulty variant: the use case goes on to its lookup whatever the schema says.
BeginUnchecked(r, op, path, input, held, issues) ==
    /\ req[r].pc = "idle"
    /\ req' = [req EXCEPT ![r] = Request(op, path, input, held)]
    /\ posts' = IF op = "create" THEN posts - 1 ELSE posts
    /\ UNCHANGED <<rows, nextId>>

\* A request whose input fails its schema ends at once in ValidationError.
Begin(r, op, path, input, held, issues) ==
    /\ req[r].pc = "idle"
    /\ req' = [req EXCEPT ![r] =
                 IF issues # <<>>
                 THEN Failed(Request(op, path, input, held), handleZodError(issues))
                 ELSE Request(op, path, input, held)]
    /\ posts' = IF op = "create" THEN posts - 1 ELSE posts
    /\ UNCHANGED <<rows, nextId>>

(* CreateUser.execute, UserController.createUser *)

\* A client sends one of its POST /users requests.
CreateStart(r, body) ==
    /\ posts > 0
    /\ Begin(r, "create", {}, body,
             Has(body, "email") /\ findUniqueByEmail(rows, body.email) # {},
             createUserSchema(body))

CreateFind(r, fault) ==
    LET q == Called(req[r], fault)
        existingUser == findByEmail(rows, q.input.email, fault)
    IN  /\ req[r].pc = "find" /\ req[r].op = "create"
        /\ req' = [req EXCEPT ![r] =
              IF ~existingUser.ok
              THEN Failed(q, existingUser.err)
              ELSE IF existingUser.val # {}
              THEN Failed(q, ValidationError("Email already in use"))
              ELSE [q EXCEPT !.pc = "write",
                             !.user = {User(q.input.name, q.input.email,
                                            q.input.password, NoId)}]]
        /\ UNCHANGED <<rows, nextId, posts>>

CreateSave(r, fault, accept) ==
    LET q == Called(req[r], fault)
        user == CHOOSE u \in q.user : TRUE
        saved == save(rows, nextId, user, fault)
    IN  /\ req[r].pc = "write" /\ req[r].op = "create"
        /\ rows' = saved.rows
        /\ nextId' = saved.nextId
        /\ req' = [req EXCEPT ![r] =
              IF ~saved.ok
              THEN Failed(q, saved.err)
              ELSE Replied(q, {saved.val}, {accept},
                     sendSuccessResponse(201,
                         formatUserResponse(saved.val, accept),
                         "User created successfully",
                         [token |-> Token(saved.val)]))]
        /\ UNCHANGED posts

(* GetUser.execute, UserController.getUser *)

GetStart(r, id) ==
    Begin(r, "get", {id}, id, findUniqueById(rows, id) # {}, userIdSchema(id))

GetFind(r, fault, accept) ==
    LET q == Called(req[r], fault)
        user == findById(rows, q.input, fault)
    IN  /\ req[r].pc = "find" /\ req[r].op = "get"
        /\ req' = [req EXCEPT ![r] =
              IF ~user.ok
              THEN Failed(q, user.err)
              ELSE IF user.val = {}
              THEN Failed(q, NotFoundError(
                       "User with ID " \o ToString(q.input) \o " not found"))
              ELSE LET u == CHOOSE u \in user.val : TRUE IN
                   Replied([q EXCEPT !.before = user.val], user.val, {accept},
                     sendSuccessResponse(200, formatUserResponse(u, accept),
                         "User retrieved successfully", NoFields))]
        /\ UNCHANGED <<rows, nextId, posts>>

(* UpdateUser.execute, UserController.updateUser *)

\* { id: parseInt(req.params.id), ...req.body }: the body's keys come last.
UpdateInput(pathId, body) == body @@ [id |-> pathId]

\* Faulty variant: the assignment without its guard, an absent field overwriting.
OverwriteUnguarded(input, k, old) == IF Has(input, k) THEN input[k] ELSE ""

\* `if (parsedInput.name) user.name = parsedInput.name`: a provided, truthy
\* (non-empty) value replaces the entity's.
Overwrite(input, k, old) ==
    IF Has(input, k) /\ input[k] # "" THEN input[k] ELSE old

UpdateStart(r, pathId, body) ==
    LET input == UpdateInput(pathId, body) IN
    Begin(r, "update", {pathId}, input, findUniqueById(rows, input.id) # {},
          updateUserSchema(input))

UpdateFind(r, fault) ==
    LET q == Called(req[r], fault)
        user == findById(rows, q.input.id, fault)
    IN  /\ req[r].pc = "find" /\ req[r].op = "update"
        /\ req' = [req EXCEPT ![r] =
              IF ~user.ok
              THEN Failed(q, user.err)
              ELSE IF user.val = {}
              THEN Failed(q, NotFoundError(
                       "User with ID " \o ToString(q.input.id) \o " not found"))
              ELSE LET u == CHOOSE u \in user.val : TRUE IN
                   [q EXCEPT !.pc = "write", !.before = user.val,
                             !.user = {User(Overwrite(q.input, "name", u.name),
                                            Overwrite(q.input, "email", u.email),
                                            Overwrite(q.input, "password", u.password),
                                            u.id)}]]
        /\ UNCHANGED <<rows, nextId, posts>>

UpdateSave(r, fault, accept) ==
    LET q == Called(req[r], fault)
        user == CHOOSE u \in q.user : TRUE
        saved == save(rows, nextId, user, fault)
    IN  /\ req[r].pc = "write" /\ req[r].op = "update"
        /\ rows' = saved.rows
        /\ nextId' = saved.nextId
        /\ req' = [req EXCEPT ![r] =
              IF ~saved.ok
              THEN Failed(q, saved.err)
              ELSE Replied(q, {saved.val}, {accept},
                     sendSuccessResponse(200,
                         formatUserResponse(saved.val, accept),
                         "User updated successfully", NoFields))]
        /\ UNCHANGED posts

(* DeleteUser.execute, UserController.deleteUser *)

DeleteStart(r, id) ==
    Begin(r, "delete", {id}, id, findUniqueById(rows, id) # {}, userIdSchema(id))

DeleteFind(r, fault) ==
    LET q == Called(req[r], fault)
        user == findById(rows, q.input, fault)
    IN  /\ req[r].pc = "find" /\ req[r].op = "delete"
        /\ req' = [req EXCEPT ![r] =
              IF ~user.ok
              THEN Failed(q, user.err)
              ELSE IF user.val = {}
              THEN Failed(q, NotFoundError(
                       "User with ID " \o ToString(q.input) \o " not found"))
              ELSE [q EXCEPT !.pc = "write", !.before = user.val]]
        /\ UNCHANGED <<rows, nextId, posts>>

DeleteWrite(r, fault) ==
    LET q == Called(req[r], fault)
        deleted == delete(rows, q.input, fault)
    IN  /\ req[r].pc = "write" /\ req[r].op = "delete"
        /\ rows' = deleted.rows
        /\ req' = [req EXCEPT ![r] =
              IF ~deleted.ok
              THEN Failed(q, deleted.err)
              ELSE Replied(q, {}, {},
                     sendSuccessResponse(204, Null,
                         "User deleted successfully", NoFields))]
        /\ UNCHANGED <<nextId, posts>>

(* LoginUser.execute, UserController.login *)

LoginStart(r, body) ==
    Begin(r, "login", {}, body,
          Has(body, "email") /\ findUniqueByEmail(rows, body.email) # {},
          loginSchema(body))

\* Faulty variant: an unknown email reported apart from a wrong password.
CredentialErrorsTelling(user, password) ==
    IF user = {} THEN {UnauthorizedError("User not found")}
    ELSE IF \E u \in user : u.password # password
    THEN {UnauthorizedError("Invalid email or password")}
    ELSE {}

\* `if (!user || user.password !== parsedInput.password) throw ...`: the
\* errors thrown for the row found (none or one) and the password given.
CredentialErrors(user, password) ==
    IF user = {} \/ \E u \in user : u.password # password
    THEN {UnauthorizedError("Invalid email or password")}
    ELSE {}

\* Faulty variant: a login removes the account it names and is refused.
LoginFindRemoving(r, fault, accept) ==
    /\ req[r].pc = "find" /\ req[r].op = "login"
    /\ req' = [req EXCEPT ![r] =
                 Failed(Called(req[r], fault),
                        UnauthorizedError("Invalid email or password"))]
    /\ rows' = {u \in rows : u.email # req[r].input.email}
    /\ UNCHANGED <<nextId, posts>>

LoginFind(r, fault, accept) ==
    LET q == Called(req[r], fault)
        user == findByEmail(rows, q.input.email, fault)
    IN  /\ req[r].pc = "find" /\ req[r].op = "login"
        /\ req' = [req EXCEPT ![r] =
              IF ~user.ok
              THEN Failed(q, user.err)
              ELSE IF CredentialErrors(user.val, q.input.password) # {}
              THEN Failed([q EXCEPT !.before = user.val],
                          CHOOSE e \in CredentialErrors(user.val, q.input.password) : TRUE)
              ELSE LET u == CHOOSE u \in user.val : TRUE IN
                   Replied([q EXCEPT !.before = user.val], user.val, {accept},
                     sendSuccessResponse(200, formatUserResponse(u, accept),
                         "Login successful", [token |-> Token(u)]))]
        /\ UNCHANGED <<rows, nextId, posts>>

\* The client has its response; the slot serves the next request.
Deliver(r) ==
    /\ req[r].pc = "done"
    /\ req' = [req EXCEPT ![r] = Idle]
    /\ UNCHANGED <<rows, nextId, posts>>

---------------------------------------------------------------------------
(* Specifications                                                          *)

\* Request inputs of the sequential specification: every body over the
\* fields, each value valid or schema-violating; ids from 0 (not positive).
FieldValues ==
    [name |-> Names \cup {BadName},
     email |-> Emails \cup {BadEmail},
     password |-> Passwords \cup {BadPassword}]

UserBodies == BodiesOver({"name", "email", "password"}, FieldValues)
LoginBodies == BodiesOver({"email", "password"}, FieldValues)
PathIds == 0..MaxId
\* Update bodies: the user fields, or a name together with an id of the
\* body's own.
UpdateBodies ==
    UserBodies \cup {[name |-> "Bob", id |-> i] : i \in PathIds}

\* Request inputs under concurrency: schema-valid, and fewer of them.
CreateBodiesC ==
    {b \in UserBodies : createUserSchema(b) = <<>> /\ b.name = "Ann"
                        /\ b.password = "secret1"}
UpdateBodiesC ==
    {b \in UserBodies : b \in {[name |-> "Bob"], [email |-> "b@x.io"]}}
LoginBodiesC ==
    {b \in LoginBodies : loginSchema(b) = <<>> /\ b.password = "secret1"}
AcceptHeadersC == {<<>>}
FaultsC == BOOLEAN

Init ==
    /\ rows = {}
    /\ nextId = 1
    /\ posts = MaxPosts
    /\ req = [r \in Reqs |-> Idle]

Step(r, createBodies, updateBodies, loginBodies, ids, accepts, faults) ==
    \/ \E b \in createBodies : CreateStart(r, b)
    \/ \E id \in ids : GetStart(r, id)
    \/ \E id \in ids, b \in updateBodies : UpdateStart(r, id, b)
    \/ \E id \in ids : DeleteStart(r, id)
    \/ \E b \in loginBodies : LoginStart(r, b)
    \/ \E fault \in faults :
          \/ CreateFind(r, fault)
          \/ UpdateFind(r, fault)
          \/ DeleteFind(r, fault)
          \/ DeleteWrite(r, fault)
          \/ \E accept \in accepts :
                \/ CreateSave(r, fault, accept)
                \/ GetFind(r, fault, accept)
                \/ UpdateSave(r, fault, accept)
                \/ LoginFind(r, fault, accept)
    \/ Deliver(r)

\* Two requests in flight at a time, interleaved at their store calls.
Next ==
    \E r \in Reqs :
        Step(r, CreateBodiesC, UpdateBodiesC, LoginBodiesC, 1..MaxId,
             AcceptHeadersC, FaultsC)

Spec == Init /\ [][Next]_vars

\* The awaited store call of r returns, with a result or a failure.
StoreReturns(r) ==
    \E fault \in FaultsC, accept \in AcceptHeadersC :
        \/ CreateFind(r, fault) \/ CreateSave(r, fault, accept)
        \/ GetFind(r, fault, accept)
        \/ UpdateFind(r, fault) \/ UpdateSave(r, fault, accept)
        \/ DeleteFind(r, fault) \/ DeleteWrite(r, fault)
        \/ LoginFind(r, fault, accept)

\* Store calls are awaited to completion or failure: no call stays pending
\* for ever.  Requests arrive, and responses are collected, at any time or
\* never.
CreateBodiesL == {b \in CreateBodiesC : b.email = "a@x.io"}
UpdateBodiesL == {b \in UpdateBodiesC : Has(b, "email")}
LoginBodiesL == {b \in LoginBodiesC : b.email = "b@x.io"}

NextLive ==
    \E r \in Reqs :
        Step(r, CreateBodiesL, UpdateBodiesL, LoginBodiesL, 1..MaxId,
             AcceptHeadersC, FaultsC)

SpecLive ==
    Init /\ [][NextLive]_vars /\ \A r \in Reqs : WF_vars(StoreReturns(r))

\* One request at a time, over every input.
InitSeq ==
    /\ rows = {}
    /\ nextId = 1
    /\ posts = MaxPostsSeq
    /\ req = [r \in SeqReqs |-> Idle]

NextSeq ==
    \E r \in SeqReqs :
        \/ Step(r, UserBodies, UpdateBodies, LoginBodies, PathIds, AcceptHeaders,
                BOOLEAN)
        \/ \E op \in {"create", "update", "login"} : Malformed(r, op)

SpecSeq == InitSeq /\ [][NextSeq]_vars

---------------------------------------------------------------------------
(* Properties                                                              *)

Slots == DOMAIN req
Done(r) == req[r].pc = "done"
Succeeded(r) == Done(r) /\ req[r].err = {}
\* The request's error is e, and the response is the one given.
FailedWith(r, e, status, flag) ==
    /\ req[r].err = {e}
    /\ req[r].res = {[status |-> status,
                      body |-> [status |-> flag, message |-> e.message]]}

\* The stored row with the given id, as a set.
Stored(id) == {u \in rows : u.id = id}

\* C1: a schema-valid CreateUser whose email no stored user holds succeeds
\* and returns an entity with a store-assigned id and exactly the submitted
\* name and email; a CreateUser whose email a stored user already holds
\* (a second create after the first has completed) fails with
\* ValidationError "Email already in use".  One request at a time, store
\* calls answering.
C1_CreateUniqueEmail ==
    \A r \in Slots :
        LET q == req[r] IN
        (Done(r) /\ q.op = "create" /\ createUserSchema(q.input) = <<>> /\ ~q.fault)
        => IF ~q.held
           THEN /\ q.err = {}
                /\ \E u \in q.out :
                      /\ u.id >= 1 /\ u.id = nextId - 1
                      /\ u.name = q.input.name
                      /\ u.email = q.input.email
                      /\ Stored(u.id) = {u}
                /\ \A res \in q.res : res.status = 201
           ELSE /\ [kind |-> "ValidationError", message |-> "Email already in use",
                    statusCode |-> 400, isOperational |-> TRUE] \in q.err
                /\ \A res \in q.res : res.status = 400

\* C1 witness: a create was refused because an earlier create holds the email.
C1_Witness ==
    \E r \in Slots :
        /\ Done(r) /\ req[r].op = "create" /\ req[r].held /\ ~req[r].fault
        /\ createUserSchema(req[r].input) = <<>>
        /\ \E e \in req[r].err : e.message = "Email already in use"
        /\ \E u \in rows : u.email = req[r].input.email

\* C2: no two stored users have the same email, whatever requests have run
\* and however they were interleaved.
C2_EmailUnique ==
    \A u, v \in rows : u.email = v.email => u = v

\* C2 witness: two users are stored and a save has been refused by the
\* store's unique constraint (not by a store fault).
C2_Witness ==
    /\ Cardinality(rows) = 2
    /\ \E r \in Slots :
          /\ Done(r) /\ ~req[r].fault
          /\ \E e \in req[r].err : e.message = "Failed to save user"

\* A request that names a user by id: get, delete, or an update whose body
\* parsed (its input then carries the id).
ById(q) == q.op \in {"get", "delete"} \/ (q.op = "update" /\ Has(q.input, "id"))
IdOf(q) == IF q.op = "update" THEN q.input.id ELSE q.input
IdIssues(q) ==
    IF q.op = "update" THEN updateUserSchema(q.input) ELSE userIdSchema(q.input)

\* C3 as stated: GetUser, DeleteUser and UpdateUser called with an id that no
\* stored user has always fail with NotFoundError, never another kind.
C3_AnyMissingIdNotFound ==
    \A r \in Slots :
        LET q == req[r] IN
        (Done(r) /\ ById(q) /\ ~q.held)
        => (q.err # {} /\ \A e \in q.err : e.kind = "NotFoundError")

\* C3 amended: with a schema-valid input (a positive integer id and, for
\* update, valid fields) whose id no stored user has, and the find-by-id
\* call answering, the three use cases fail with NotFoundError (404) naming
\* the id.
C3_ValidMissingIdNotFound ==
    \A r \in Slots :
        LET q == req[r] IN
        (Done(r) /\ ById(q) /\ ~q.held /\ IdIssues(q) = <<>> /\ ~q.fault)
        => FailedWith(r, [kind |-> "NotFoundError",
                          message |-> "User with ID " \o ToString(IdOf(q))
                                      \o " not found",
                          statusCode |-> 404, isOperational |-> TRUE],
                      404, "fail")

\* C3 witness: an update of a valid id that is not stored ended in 404.
C3_Witness ==
    \E r \in Slots :
        /\ Done(r) /\ req[r].op = "update" /\ Has(req[r].input, "id")
        /\ ~req[r].held /\ ~req[r].fault /\ req[r].input.id >= 1
        /\ \E e \in req[r].err : e.kind = "NotFoundError"
        /\ rows # {}

UpdatableFields == {"name", "email", "password"}

\* C4: after a successful UpdateUser (one request at a time) every field
\* the input provides holds the provided value, every other field holds its
\* value from before the call, and with no field provided the stored user
\* is the one from before.
C4_UpdateFrame ==
    \A r \in Slots :
        LET q == req[r] IN
        (Succeeded(r) /\ q.op = "update")
        => \E old \in q.before, new \in Stored(q.input.id) :
              /\ old.id = q.input.id /\ Cardinality(Stored(q.input.id)) = 1
              /\ \A k \in UpdatableFields :
                    new[k] = IF Has(q.input, k) THEN q.input[k] ELSE old[k]
              /\ (DOMAIN q.input \cap UpdatableFields = {} => new = old)
              /\ q.out = {new}

\* C4 witness: an update that provided some fields and not others, and
\* changed a stored value, has succeeded.
C4_Witness ==
    \E r \in Slots :
        /\ Succeeded(r) /\ req[r].op = "update"
        /\ Has(req[r].input, "name") /\ ~Has(req[r].input, "email")
        /\ \E old \in req[r].before : old.name # req[r].input.name

\* The one response both kinds of failed login get.
InvalidCredentials ==
    [status |-> 401,
     body |-> [status |-> "fail", message |-> "Invalid email or password"]]

\* A schema-valid login whose store call answered.
ValidLogin(r) ==
    Done(r) /\ req[r].op = "login" /\ loginSchema(req[r].input) = <<>>
    /\ ~req[r].fault

\* C5: a schema-valid login with an email no stored user has, and one with
\* a stored email and a password other than the stored one, both fail with
\* UnauthorizedError "Invalid email or password": the responses are equal.
C5_LoginFailuresAlike ==
    \A r \in Slots :
        LET q == req[r] IN
        (/\ ValidLogin(r)
         /\ \/ ~q.held
            \/ \E u \in rows : u.email = q.input.email /\ u.password # q.input.password)
        => /\ q.res = {InvalidCredentials}
           /\ \A e \in q.err : e.kind = "UnauthorizedError" /\ e.statusCode = 401

\* C5 witness: a login with a stored email and a wrong password was refused.
C5_Witness ==
    \E r \in Slots :
        /\ ValidLogin(r) /\ req[r].held
        /\ \E u \in rows : u.email = req[r].input.email
                           /\ u.password # req[r].input.password
        /\ req[r].res = {InvalidCredentials}

\* C6: a login with a stored user's email and stored password succeeds with
\* a token that decodes to that user's id and email; the token of the create
\* endpoint decodes to the id and email of the user just created.
C6_TokenDecodes ==
    \A r \in Slots :
        LET q == req[r] IN
        /\ (/\ ValidLogin(r)
            /\ \E u \in rows : u.email = q.input.email
                               /\ u.password = q.input.password)
           => /\ q.err = {}
              /\ \E res \in q.res, u \in rows :
                    /\ res.status = 200 /\ Has(res.body, "token")
                    /\ u.email = q.input.email
                    /\ JwtDecode(res.body.token).id = u.id
                    /\ JwtDecode(res.body.token).email = u.email
        /\ (Succeeded(r) /\ q.op = "create")
           => \E res \in q.res, u \in rows :
                 /\ Has(res.body, "token")
                 /\ u.id = nextId - 1 /\ u.email = q.input.email
                 /\ JwtDecode(res.body.token).id = u.id
                 /\ JwtDecode(res.body.token).email = u.email

\* C6 witness: a login with correct credentials succeeded for the user
\* created second.
C6_Witness ==
    \E r \in Slots :
        /\ ValidLogin(r) /\ Succeeded(r)
        /\ \E res \in req[r].res : JwtDecode(res.body.token).id = 2

\* A response that carries a user: the successful create, get, update, login.
UserResponse(r) == Succeeded(r) /\ req[r].op \in {"create", "get", "update", "login"}

\* C7: the user in a response is the simple projection, id and name only,
\* when the Accept header contains application/vnd.simple+json, and the full
\* projection {id, name, email} when it is absent or does not contain it.
C7_SimpleProjection ==
    \A r \in Slots :
        LET q == req[r] IN
        UserResponse(r)
        => \E res \in q.res, u \in q.out, a \in q.accept :
              IF a # <<>> /\ Includes(a[1], SimpleType)
              THEN res.body.data = [id |-> u.id, name |-> u.name]
              ELSE res.body.data = [id |-> u.id, name |-> u.name, email |-> u.email]

\* Every password value a request can carry or the store can hold.
AllPasswords == Passwords \cup {BadPassword}

\* The strings of a response body: its message and status, the user's
\* fields, the token's claims.
BodyStrings(body) ==
    (IF Has(body, "message") THEN {body.message} ELSE {})
    \cup (IF Has(body, "status") THEN {body.status} ELSE {})
    \cup (IF Has(body, "data")
          THEN {body.data[k] : k \in DOMAIN body.data \ {"id"}} ELSE {})
    \cup (IF Has(body, "token")
          THEN {JwtDecode(body.token)[k] : k \in DOMAIN JwtDecode(body.token) \ {"id"}}
          ELSE {})

BodyKeys(body) ==
    DOMAIN body
    \cup (IF Has(body, "data") THEN DOMAIN body.data ELSE {})
    \cup (IF Has(body, "token") THEN DOMAIN JwtDecode(body.token) ELSE {})

\* C8: no response body, of a success or of an error, contains a password:
\* no password key, and no string in which a password occurs.
C8_NoPasswordInBody ==
    \A r \in Slots :
        Done(r)
        => \A res \in req[r].res :
              /\ "password" \notin BodyKeys(res.body)
              /\ \A str \in BodyStrings(res.body), pw \in AllPasswords :
                    ~Includes(str, pw)

\* C8 witness: a login has answered with the user whose password it checked.
C8_Witness ==
    \E r \in Slots :
        /\ UserResponse(r) /\ req[r].op = "login"
        /\ \E u \in req[r].out : u.password \in AllPasswords
        /\ \E res \in req[r].res : Has(res.body.data, "email")

\* The taxonomy's status codes.
StatusOf(kind) ==
    CASE kind = "ValidationError" -> 400
      [] kind = "NotFoundError" -> 404
      [] kind = "UnauthorizedError" -> 401
      [] kind = "InternalServerError" -> 500

\* C9: a classified error is answered with its kind's status code, its own
\* message, and the status field "fail" for a 4xx code, "error" for 5xx.
C9_ClassifiedErrorResponse ==
    \A r \in Slots :
        Done(r)
        => \A e \in req[r].err :
              e.kind \in AppErrorKinds
              => /\ e.statusCode = StatusOf(e.kind)
                 /\ req[r].res =
                       {[status |-> StatusOf(e.kind),
                         body |-> [status |-> IF StatusOf(e.kind) \in 400..499
                                              THEN "fail" ELSE "error",
                                   message |-> e.message]]}

\* C9 witness: a store failure has been answered with 500 and "error".
C9_Witness ==
    \E r \in Slots :
        /\ Done(r)
        /\ \E e \in req[r].err : e.kind = "InternalServerError"
        /\ \E res \in req[r].res : res.status = 500 /\ res.body.status = "error"

\* C10: an error that is not of the taxonomy is answered with 500, "error"
\* and the fixed message; nothing of the error is in the response.
C10_UnexpectedErrorResponse ==
    \A r \in Slots :
        Done(r)
        => \A e \in req[r].err :
              e.kind \notin AppErrorKinds
              => /\ req[r].res =
                       {[status |-> 500,
                         body |-> [status |-> "error",
                                   message |-> "An unexpected error occurred"]]}
                 /\ e.message # "An unexpected error occurred"
                 /\ e.statusCode # 500

\* C10 witness: a malformed body's parse error reached the handler.
C10_Witness ==
    \E r \in Slots :
        /\ Done(r)
        /\ BodyParseError \in req[r].err
        /\ \E res \in req[r].res : res.status = 500

\* Two CreateUser requests for one email that have both built their entity:
\* each passed its find-by-email check.
BothPassedCheck(r1, r2) ==
    /\ r1 # r2
    /\ req[r1].pc \in {"write", "done"} /\ req[r2].pc \in {"write", "done"}
    /\ req[r1].op = "create" /\ req[r2].op = "create"
    /\ req[r1].input.email = req[r2].input.email
    /\ req[r1].user # {} /\ req[r2].user # {}

\* The race's outcome: one user with the email is stored, it is the one a
\* request succeeded with, and the other request failed with
\* InternalServerError "Failed to save user", answered with status 500.
OneCreated(r1, r2) ==
    /\ Cardinality(findUniqueByEmail(rows, req[r1].input.email)) = 1
    /\ Succeeded(r1) # Succeeded(r2)
    /\ \A r \in {r1, r2} :
          IF Succeeded(r)
          THEN req[r].out = findUniqueByEmail(rows, req[r].input.email)
          ELSE FailedWith(r, [kind |-> "InternalServerError",
                              message |-> "Failed to save user",
                              statusCode |-> 500, isOperational |-> TRUE],
                          500, "error")

\* The step in which r2's save ends while r1 holds the response of its own
\* successful save.  r1's user is still stored as created, so r2's check,
\* which found the email free, came before r1's save committed: both passed
\* the check before either save.  No store call failed for another reason.
SecondSaveEnds(r1, r2) ==
    /\ BothPassedCheck(r1, r2)
    /\ Succeeded(r1) /\ req[r1].out \subseteq rows
    /\ req[r2].pc = "write" /\ req'[r2].pc = "done"
    /\ ~req'[r2].fault

\* C11: two CreateUser requests for the same unused email can both pass the
\* find-by-email check before either save commits; when they do and no store
\* call fails for another reason, exactly one user with that email is
\* persisted and the other request fails with InternalServerError (500)
\* from the unique-constraint violation, never with a success.
C11_CreateRace ==
    [][\A r1, r2 \in Slots : SecondSaveEnds(r1, r2) => OneCreated(r1, r2)']_vars

\* C11 witness: two creates for one email both passed the check, one is
\* stored and the other ended in a 500 that no store fault caused.
C11_Witness ==
    \E r1, r2 \in Slots :
        /\ BothPassedCheck(r1, r2) /\ Succeeded(r1) /\ Done(r2)
        /\ ~req[r2].fault
        /\ OneCreated(r1, r2)

\* The fields of each use case's schema in the schema's order, by issue path
\* (the id of get and delete is the input itself: its path is empty).
SchemaFields(op) ==
    CASE op = "create" -> <<"name", "email", "password">>
      [] op = "update" -> <<"id", "name", "email", "password">>
      [] op = "login" -> <<"email", "password">>
      [] op \in {"get", "delete"} -> <<"">>

\* The field at path k of the input breaks its rule: a required field is
\* absent, a present string breaks its format, an id is not positive.
Violated(op, input, k) ==
    CASE k = "" -> ~(input > 0)
      [] k = "id" -> ~(input.id > 0)
      [] OTHER -> IF Has(input, k)
                  THEN ~(CASE k = "name" -> Len(input[k]) >= 1
                           [] k = "email" -> input[k] \in Emails
                           [] k = "password" -> Len(input[k]) >= 6)
                  ELSE op # "update"

RECURSIVE ViolatedFields(_, _, _)
ViolatedFields(op, input, fields) ==
    IF fields = <<>> THEN <<>>
    ELSE (IF Violated(op, input, Head(fields)) THEN <<Head(fields)>> ELSE <<>>)
         \o ViolatedFields(op, input, Tail(fields))

\* The messages an issue can carry.
IssueMessages ==
    {"Required", "Name is required", "Invalid email address",
     "Password must be at least 6 characters", "ID must be a positive integer"}

\* message lists the paths, in order, each as "<path>: <message>", joined
\* by ", " after the prefix.
ListsViolations(message, paths) ==
    \E ms \in [1..Len(paths) -> IssueMessages] :
        message = "Validation failed: "
                  \o Join([i \in 1..Len(paths) |-> paths[i] \o ": " \o ms[i]],
                          ", ")

\* A request (its body parsed) whose input violates its schema.
Invalid(q) ==
    /\ q.pc # "idle" /\ BodyParseError \notin q.err
    /\ ViolatedFields(q.op, q.input, SchemaFields(q.op)) # <<>>

\* C12: validation collects every violated field rule of a call: an input
\* that violates its schema fails with one ValidationError whose message is
\* "Validation failed: " followed by one "<field path>: <message>" per
\* violated field, in the schema's field order, joined by ", "; the create
\* input {email: "invalid"} lists name, email and password, in that order.
C12_AllViolationsListed ==
    \A r \in Slots :
        LET q == req[r] IN
        Invalid(q)
        => /\ Done(r)
           /\ \E e \in q.err :
                 /\ q.err = {e} /\ e.kind = "ValidationError"
                 /\ ListsViolations(e.message,
                        ViolatedFields(q.op, q.input, SchemaFields(q.op)))
                 /\ (q.op = "create" /\ q.input = [email |-> BadEmail])
                    => ListsViolations(e.message, <<"name", "email", "password">>)

\* C12 witness: the create input {email: "invalid"} has been refused with
\* the three violations listed.
C12_Witness ==
    \E r \in Slots :
        /\ Done(r) /\ req[r].op = "create" /\ req[r].input = [email |-> "invalid"]
        /\ \E e \in req[r].err :
              e.message = "Validation failed: name: Required, "
                          \o "email: Invalid email address, password: Required"

\* The status and the body's keys each endpoint documents for a success.
SuccessStatus(op) ==
    CASE op = "create" -> 201
      [] op = "delete" -> 204
      [] op \in {"get", "update", "login"} -> 200

SuccessKeys(op) ==
    IF op \in {"create", "login"} THEN {"data", "message", "token"}
    ELSE {"data", "message"}

\* C13: every successful request answers with the status and body shape of
\* its endpoint: create 201 with data, message and token; login 200 with
\* data, message and token; get and update 200 with data and message and no
\* token; delete 204 with data null and message.
C13_SuccessShapes ==
    \A r \in Slots :
        Succeeded(r)
        => \E res \in req[r].res :
              /\ req[r].res = {res}
              /\ res.status = SuccessStatus(req[r].op)
              /\ DOMAIN res.body = SuccessKeys(req[r].op)
              /\ req[r].op = "delete" => res.body.data = Null

\* C14: schema validation is the first step of every use case: an input that
\* violates its schema (create: name length >= 1, valid email, password
\* length >= 6; update: positive id and the same rules for each field
\* present; get and delete: positive id; login: valid email, password length
\* >= 6) fails with ValidationError (400), and the call makes no repository
\* operation, read or write.
C14_ValidationFirst ==
    \A r \in Slots :
        LET q == req[r] IN
        Invalid(q)
        => /\ Done(r)
           /\ q.calls = 0
           /\ q.before = {} /\ q.user = {} /\ q.out = {}
           /\ \E e \in q.err :
                 /\ e.kind = "ValidationError" /\ e.statusCode = 400
                 /\ FailedWith(r, e, 400, "fail")

\* C14 witness: with a user stored, an update naming that user with an
\* invalid email was refused without a call to the repository.
C14_Witness ==
    \E r \in Slots :
        /\ Done(r) /\ req[r].op = "update" /\ req[r].held
        /\ Has(req[r].input, "email") /\ req[r].input.email = BadEmail
        /\ req[r].calls = 0
        /\ \E e \in req[r].err : e.kind = "ValidationError"

\* The store refuses the write the request is about to make: a row written
\* with an email another row holds, an update or delete of a row that is gone.
WriteRefused(q) ==
    /\ q.pc = "write"
    /\ IF q.op = "delete" THEN \A u \in rows : u.id # q.input
       ELSE \E w \in q.user :
               \/ \E u \in rows : u.email = w.email /\ u.id # w.id
               \/ q.op = "update" /\ \A u \in rows : u.id # w.id

\* The messages of the repository's InternalServerErrors.
RepositoryFailures ==
    {"Failed to fetch user by ID", "Failed to fetch user by email",
     "Failed to save user", "Failed to delete user"}

\* The request ended in an InternalServerError of the repository, answered
\* as one.
EndedInternal(r) ==
    /\ Done(r)
    /\ \E e \in req[r].err :
          /\ req[r].err = {e} /\ e.kind = "InternalServerError"
          /\ e.statusCode = 500 /\ e.message \in RepositoryFailures
          /\ FailedWith(r, e, 500, "error")

\* A step in which a repository call of r returns with the store having
\* failed: the store itself failed in the call, or refused the write.
StoreCallFails(r) ==
    /\ req[r].pc \in {"find", "write"} /\ req'[r] # req[r]
    /\ req'[r].fault \/ WriteRefused(req[r])

\* C15: whenever a store operation (find by id, find by email, create,
\* update, delete) fails, the repository raises InternalServerError and the
\* use case that called it ends with that InternalServerError: the failure
\* is never swallowed, never turned into a success, never reclassified, and
\* the failed call leaves the stored users as they were.
C15_StoreFailureSurfaces ==
    [][\A r \in Slots :
          StoreCallFails(r) => (EndedInternal(r)' /\ rows' = rows)]_vars

\* C15 witness: a delete whose store call failed ended in
\* InternalServerError with the user still stored.
C15_Witness ==
    \E r \in Slots :
        /\ EndedInternal(r) /\ req[r].op = "delete" /\ req[r].fault
        /\ req[r].calls = 2
        /\ req[r].before \subseteq rows /\ req[r].before # {}

\* The request is inside its use case, a store call pending.
InFlight(r) == req[r].pc \in {"find", "write"}

\* The response of a request that has ended: exactly one, the controller's
\* success response when the use case returned, the centralized handler's
\* error response when it threw.
OneResponse(r) ==
    /\ InFlight(r) => req[r].res = {}
    /\ Done(r)
       => /\ Cardinality(req[r].res) = 1
          /\ Cardinality(req[r].err) <= 1
          /\ \A res \in req[r].res :
                IF req[r].err = {}
                THEN res.status \in 200..299 /\ ~Has(res.body, "status")
                ELSE /\ res.status \in 400..599
                     /\ DOMAIN res.body = {"status", "message"}
                     /\ \E e \in req[r].err : res = errorHandler(e)

\* C16: every request whose store calls complete or fail eventually
\* receives exactly one response, the controller's success response or the
\* centralized handler's error response, never both and never none; an
\* error thrown in a use case is answered by the centralized handler, not
\* by the controller.
C16_OneResponse ==
    /\ \A r \in Reqs : InFlight(r) ~> Done(r)
    /\ [](\A r \in Reqs : OneResponse(r))

\* C16 witness: one request has been answered by the controller and the
\* other, whose use case threw, by the centralized handler.
C16_Witness ==
    \E r1, r2 \in Slots :
        /\ Succeeded(r1) /\ OneResponse(r1)
        /\ Done(r2) /\ req[r2].err # {} /\ req[r2].calls = 2 /\ OneResponse(r2)

\* The step in which the save of r's update returns.
UpdateSaved(r) ==
    /\ req[r].pc = "write" /\ req[r].op = "update" /\ req'[r].pc = "done"

\* C17: a PUT /users/:id request changes at most the stored user whose id
\* is the path parameter, whatever the request body contains (a body with
\* an id field of its own included); every other stored user is unchanged.
C17_OnlyPathUser ==
    [][\A r \in Slots :
          UpdateSaved(r)
          => \A u \in rows : u.id \notin req[r].path => u \in rows']_vars

\* The kinds of error a failed pre-check ends in.
PreCheckKinds == {"ValidationError", "NotFoundError", "UnauthorizedError"}

\* A step of request r's own execution: it starts, or a store call of its
\* returns.
Advances(r) == req'[r] # req[r] /\ req'[r].pc # "idle"

\* A GetUser or LoginUser execution, or one that ended in a pre-check error.
WritesNothing(q) ==
    \/ q.op \in {"get", "login"}
    \/ q.pc = "done" /\ \E e \in q.err : e.kind \in PreCheckKinds

\* C18: the set of stored users is unchanged by every GetUser and LoginUser
\* execution, and by every CreateUser, UpdateUser or DeleteUser execution
\* that ends in ValidationError, NotFoundError or UnauthorizedError: none of
\* its steps changes the stored users, and it ends having made no write
\* call (at most its one read).
C18_NoWriteAfterFailedCheck ==
    [][\A r \in Slots :
          (Advances(r) /\ WritesNothing(req'[r]))
          => /\ rows' = rows /\ nextId' = nextId
             /\ req'[r].calls <= 1 /\ req'[r].user = {}]_vars

\* C18 witness: with a user stored, a create for its email was refused
\* after its read, and the user is stored as before.
C18_Witness ==
    \E r \in Slots :
        /\ Done(r) /\ req[r].op = "create" /\ req[r].calls = 1
        /\ \E e \in req[r].err : e.kind = "ValidationError"
        /\ \E u \in rows : u.email = req[r].input.email

Ids(t) == {u.id : u \in t}

\* The step in which the write of r's request of kind op returns with success.
WriteSucceeds(r, op) ==
    /\ req[r].pc = "write" /\ req[r].op = op
    /\ req'[r].pc = "done" /\ req'[r].err = {}

\* The ids that were assigned and are stored no more: those of deleted users.
DeletedIds == (1..(nextId - 1)) \ Ids(rows)

\* A GetUser of a deleted user's id, its lookup answered, has ended in
\* NotFoundError.
GetAfterDelete(r) ==
    (Done(r) /\ req[r].op = "get" /\ ~req[r].fault /\ req[r].input \in DeletedIds)
    => \E e \in req[r].err : e.kind = "NotFoundError" /\ FailedWith(r, e, 404, "fail")

\* C19: each successful mutation touches exactly one record.  CreateUser
\* adds exactly one user, with an id no stored user had, and leaves every
\* existing user unchanged; UpdateUser changes only the targeted user and
\* neither adds nor removes a user; DeleteUser removes only the targeted
\* user, and a GetUser on that id afterwards fails with NotFoundError.
C19_OneRecordTouched ==
    [][\A r \in Slots :
          /\ WriteSucceeds(r, "create")
             => /\ rows \subseteq rows'
                /\ \E new \in rows' :
                      /\ rows' \ rows = {new}
                      /\ new.id \notin Ids(rows)
                      /\ req'[r].out = {new}
          /\ WriteSucceeds(r, "update")
             => /\ Ids(rows') = Ids(rows)
                /\ Cardinality(rows') = Cardinality(rows)
                /\ \A u \in rows : u.id # req[r].input.id => u \in rows'
          /\ WriteSucceeds(r, "delete")
             => /\ rows' = rows \ Stored(req[r].input)
                /\ Cardinality(rows') = Cardinality(rows) - 1
                /\ req[r].input \in DeletedIds'
          /\ GetAfterDelete(r)']_vars

\* C19 witness: after one of two users was deleted, a GetUser on the
\* deleted user's id ended in NotFoundError, the other user still stored.
C19_Witness ==
    \E r \in Slots :
        /\ Done(r) /\ req[r].op = "get" /\ ~req[r].fault
        /\ req[r].input \in DeletedIds /\ rows # {}
        /\ \E e \in req[r].err : e.kind = "NotFoundError"

\* C20: an UpdateUser call never changes the stored value of a field it does
\* not provide, also when another UpdateUser on the same id commits between
\* its read and its write: the step in which its save succeeds leaves every
\* field outside its input as stored, so that two concurrent updates with
\* disjoint fields leave both provided values stored.
C20_UnprovidedFieldsKept ==
    [][\A r \in Slots :
          WriteSucceeds(r, "update")
          => \A k \in UpdatableFields \ DOMAIN req[r].input :
                \A old \in Stored(req[r].input.id) :
                   \A new \in {u \in rows' : u.id = old.id} : new[k] = old[k]]_vars

\* The save of r's update is about to write, to the user the lookup found,
\* an email the input provides and a different stored user holds.
UpdateToHeldEmail(r) ==
    /\ req[r].pc = "write" /\ req[r].op = "update"
    /\ Has(req[r].input, "email")
    /\ \E w \in req[r].user, u \in rows :
          /\ w.email = req[r].input.email /\ Stored(w.id) # {}
          /\ u.email = w.email /\ u.id # w.id

\* C21: UpdateUser makes no uniqueness pre-check on email: an update that
\* sets an existing user's email to one a different stored user holds gets
\* as far as its save, is refused there by the store's unique constraint,
\* and ends in InternalServerError "Failed to save user" (500, not
\* ValidationError 400), both users' records left unchanged.
C21_HeldEmailUpdate ==
    [][\A r \in Slots :
          (UpdateToHeldEmail(r) /\ req'[r] # req[r])
          => /\ EndedInternal(r)'
             /\ \E e \in req'[r].err :
                   e.message = "Failed to save user" /\ e.statusCode = 500
             /\ req'[r].calls = 2
             /\ rows' = rows]_vars

\* C21 witness: an update of a stored user to the email of the other
\* stored user ended in a 500 that no store fault caused, both still stored.
C21_Witness ==
    \E r \in Slots :
        /\ EndedInternal(r) /\ req[r].op = "update" /\ ~req[r].fault
        /\ Has(req[r].input, "email") /\ req[r].before \subseteq rows
        /\ \E old \in req[r].before, u \in rows :
              u.id # old.id /\ u.email = req[r].input.email
                            /\ old.email # req[r].input.email

\* The write of r's update or delete is about to be made for a user the
\* lookup found and another request's delete has removed since.
WriteAfterDelete(r) ==
    /\ req[r].pc = "write" /\ req[r].op \in {"update", "delete"}
    /\ \E old \in req[r].before : old.id \in DeletedIds

\* The message of the repository's failed write for each use case.
WriteFailure(op) ==
    IF op = "delete" THEN "Failed to delete user" ELSE "Failed to save user"

\* C22: when a DeleteUser of id X commits between the find-by-id and the
\* write of another UpdateUser or DeleteUser on X, that other request ends
\* in InternalServerError ("Failed to save user" or "Failed to delete
\* user"), not in NotFoundError, and the user is not re-created: once a
\* delete of X has committed, no user with id X is stored in any later state.
C22_DeleteWinsRace ==
    [][/\ \A r \in Slots :
             (WriteAfterDelete(r) /\ req'[r] # req[r])
             => /\ EndedInternal(r)'
                /\ \E e \in req'[r].err : e.message = WriteFailure(req[r].op)
                /\ rows' = rows
       /\ DeletedIds \subseteq DeletedIds']_vars

\* C22 witness: an update found its user, the user was deleted before the
\* save, and the update ended in a 500 that no store fault caused, the user
\* not stored.
C22_Witness ==
    \E r \in Slots :
        /\ EndedInternal(r) /\ req[r].op = "update" /\ ~req[r].fault
        /\ req[r].calls = 2
        /\ \E old \in req[r].before : old.id \in DeletedIds

====
